---- MODULE Spec2Model ----
(***************************************************************************)
(* Model of cupyx/scipy/sparse/linalg/_solve.py: the iterative least-       *)
(* squares solver lsmr, the triangular solve spsolve_triangular and the     *)
(* factorization-based solve SuperLU.solve.                                 *)
(*                                                                          *)
(* Floating-point numbers are modelled by a small binary floating-point     *)
(* format: a finite value is an integer k standing for k / 2^FracBits,      *)
(* every arithmetic result is truncated to Prec significant bits, results   *)
(* of magnitude >= Huge overflow to an infinity, and division by zero and   *)
(* invalid operations give infinities and NaN as IEEE-754 arithmetic on     *)
(* device arrays does (no exception is raised).                             *)
(***************************************************************************)
EXTENDS Integers, Sequences, FiniteSets, TLC

\* ------------------------------------------------------------------------
\* The number format
\* ------------------------------------------------------------------------
FracBits == 7
Prec == 4
Huge == 16384

Scale == 2^FracBits
PInf == Huge
NInf == 0 - Huge
NaN == Huge + 1

IsNaN(a) == a = NaN
IsInf(a) == a = PInf \/ a = NInf
IsFin(a) == ~IsNaN(a) /\ ~IsInf(a)

AbsInt(k) == IF k < 0 THEN 0 - k ELSE k
SgnInt(k) == IF k > 0 THEN 1 ELSE IF k < 0 THEN 0 - 1 ELSE 0

\* k >= 0 truncated to Prec significant bits
RECURSIVE TruncTo(_, _)
TruncTo(k, unit) ==
    IF k < unit * 2^Prec THEN (k \div unit) * unit ELSE TruncTo(k, 2 * unit)

\* the exact integer k (in units of 2^-FracBits) rounded into the format
Rnd(k) ==
    IF k >= Huge THEN PInf
    ELSE IF k <= 0 - Huge THEN NInf
    ELSE SgnInt(k) * TruncTo(AbsInt(k), 1)

\* the number r (a small integer) as a value of the format
Num(r) == Rnd(r * Scale)

RECURSIVE ISqrtBin(_, _, _)
ISqrtBin(n, lo, hi) ==
    IF hi - lo <= 1 THEN lo
    ELSE LET mid == (lo + hi) \div 2
         IN  IF mid * mid <= n THEN ISqrtBin(n, mid, hi) ELSE ISqrtBin(n, lo, mid)

\* floor of the square root of n >= 0
ISqrt(n) == ISqrtBin(n, 0, 46340)

FNeg(a) == IF IsNaN(a) THEN NaN ELSE 0 - a

FAbs(a) == IF IsNaN(a) THEN NaN ELSE AbsInt(a)

FAdd(a, b) ==
    IF IsNaN(a) \/ IsNaN(b) THEN NaN
    ELSE IF IsInf(a) /\ IsInf(b) THEN (IF a = b THEN a ELSE NaN)
    ELSE IF IsInf(a) THEN a
    ELSE IF IsInf(b) THEN b
    ELSE Rnd(a + b)

FSub(a, b) == FAdd(a, FNeg(b))

FMul(a, b) ==
    IF IsNaN(a) \/ IsNaN(b) THEN NaN
    ELSE IF IsInf(a) \/ IsInf(b)
         THEN (IF a = 0 \/ b = 0 THEN NaN
               ELSE IF SgnInt(a) * SgnInt(b) > 0 THEN PInf ELSE NInf)
    ELSE Rnd(SgnInt(a) * SgnInt(b) * ((AbsInt(a) * AbsInt(b)) \div Scale))

FDiv(a, b) ==
    IF IsNaN(a) \/ IsNaN(b) THEN NaN
    ELSE IF IsInf(a) /\ IsInf(b) THEN NaN
    ELSE IF IsInf(a) THEN (IF SgnInt(a) * SgnInt(b) >= 0 THEN PInf ELSE NInf)
    ELSE IF IsInf(b) THEN 0
    ELSE IF b = 0 THEN (IF a = 0 THEN NaN ELSE IF a > 0 THEN PInf ELSE NInf)
    ELSE Rnd(SgnInt(a) * SgnInt(b) * ((AbsInt(a) * Scale) \div AbsInt(b)))

FSqrt(a) ==
    IF IsNaN(a) \/ a < 0 THEN NaN
    ELSE IF a = PInf THEN PInf
    ELSE Rnd(ISqrt(a * Scale))

\* comparisons: every comparison with NaN is false
FLt(a, b) == ~IsNaN(a) /\ ~IsNaN(b) /\ a < b
FLe(a, b) == ~IsNaN(a) /\ ~IsNaN(b) /\ a <= b
FGt(a, b) == FLt(b, a)
FGe(a, b) == FLe(b, a)
FEq(a, b) == ~IsNaN(a) /\ ~IsNaN(b) /\ a = b

\* Python's built-in max(a, b) and min(a, b): the first argument unless the
\* second compares strictly greater (smaller)
PyMax(a, b) == IF FGt(b, a) THEN b ELSE a
PyMin(a, b) == IF FLt(b, a) THEN b ELSE a

\* ------------------------------------------------------------------------
\* Vectors (sequences of numbers) and the linear operator
\* ------------------------------------------------------------------------
\* a function on 1..n as a sequence whose elements are computed once
Vec(f) == f \o <<>>

Zeros(n) == Vec([i \in 1..n |-> 0])

VScale(c, x) == Vec([i \in 1..Len(x) |-> FMul(c, x[i])])
VDivScalar(x, c) == Vec([i \in 1..Len(x) |-> FDiv(x[i], c)])
VSub(x, y) == Vec([i \in 1..Len(x) |-> FSub(x[i], y[i])])
VAdd(x, y) == Vec([i \in 1..Len(x) |-> FAdd(x[i], y[i])])

RECURSIVE SumSq(_, _)
SumSq(x, i) == IF i > Len(x) THEN 0 ELSE x[i] * x[i] + SumSq(x, i + 1)

\* cublas.nrm2: the Euclidean norm
nrm2(x) ==
    IF \E i \in 1..Len(x) : IsNaN(x[i]) THEN NaN
    ELSE IF \E i \in 1..Len(x) : IsInf(x[i]) THEN PInf
    ELSE Rnd(ISqrt(SumSq(x, 1)))

RECURSIVE DotFrom(_, _, _, _)
DotFrom(f, x, i, acc) ==
    IF i > Len(x) THEN acc ELSE DotFrom(f, x, i + 1, FAdd(acc, FMul(f[i], x[i])))

\* A is a sequence of m rows of length n
NRows(A) == Len(A)
NCols(A) == Len(A[1])

\* A.matvec(v) = A v and A.rmatvec(u) = A^H u (real entries)
Column(A, j) == Vec([i \in 1..NRows(A) |-> A[i][j]])
matvec(A, v) == Vec([i \in 1..NRows(A) |-> DotFrom(A[i], v, 1, 0)])
rmatvec(A, u) == Vec([j \in 1..NCols(A) |-> DotFrom(Column(A, j), u, 1, 0)])

\* ------------------------------------------------------------------------
\* Givens rotations: the routines of kernel1's preamble.  (A value that the
\* code computes once and uses several times is passed on as an argument,
\* so that it is computed once here too.)
\* ------------------------------------------------------------------------
\* sign(x)
sign(x) == IF FGt(x, 0) THEN Num(1) ELSE IF FLt(x, 0) THEN FNeg(Num(1)) ELSE 0

\* sqrt(1 + tau * tau)
Hyp1(tau) == FSqrt(FAdd(Num(1), FMul(tau, tau)))

\* the radius taken as b * s
symOrthoSteepMul(b, tau, s) == [c |-> FMul(s, tau), s |-> s, r |-> FMul(b, s)]

\* abs(b) > abs(a), given tau = a / b and s = sign(b) / sqrt(1 + tau * tau)
symOrthoSteep(b, tau, s) == [c |-> FMul(s, tau), s |-> s, r |-> FDiv(b, s)]

\* otherwise, given tau = b / a and c = sign(a) / sqrt(1 + tau * tau)
symOrthoFlat(a, tau, c) == [c |-> c, s |-> FMul(c, tau), r |-> FDiv(a, c)]

symOrthoTau(a, b, steep, tau) ==
    IF steep THEN symOrthoSteep(b, tau, FDiv(sign(b), Hyp1(tau)))
    ELSE symOrthoFlat(a, tau, FDiv(sign(a), Hyp1(tau)))

\* _symOrtho(a, b, c, s, r): the outputs as a record
_symOrtho(a, b) ==
    IF FEq(b, 0) THEN [c |-> sign(a), s |-> 0, r |-> FAbs(a)]
    ELSE IF FEq(a, 0) THEN [c |-> 0, s |-> sign(b), r |-> FAbs(b)]
    ELSE IF FGt(FAbs(b), FAbs(a)) THEN symOrthoTau(a, b, TRUE, FDiv(a, b))
    ELSE symOrthoTau(a, b, FALSE, FDiv(b, a))

symOrtho1Tau(a, b, steep, tau) ==
    IF steep THEN FDiv(b, FDiv(sign(b), Hyp1(tau)))
    ELSE FDiv(a, FDiv(sign(a), Hyp1(tau)))

\* _symOrtho1(a, b): the radius only
_symOrtho1(a, b) ==
    IF FEq(b, 0) THEN FAbs(a)
    ELSE IF FEq(a, 0) THEN FAbs(b)
    ELSE IF FGt(FAbs(b), FAbs(a)) THEN symOrtho1Tau(a, b, TRUE, FDiv(a, b))
    ELSE symOrtho1Tau(a, b, FALSE, FDiv(b, a))

\* hba = h - (thetabar*rh/(rhoold * rhobar)) * hbar;  h1 = v - (theta/rh);
kernel1Out(rh, alphaba, theta_, coef, v_, hbar_, h_) ==
    [rho |-> rh,
     alphabar |-> alphaba,
     theta |-> theta_,
     hbar |-> Vec([i \in 1..Len(h_) |-> FSub(h_[i], FMul(coef, hbar_[i]))]),
     h |-> Vec([i \in 1..Len(v_) |-> FSub(v_[i], FDiv(theta_, rh))])]

\* theta = s*alpha; alphaba = c*alpha; thetabar = sbar * rh
kernel1Rot(alpha_, sbar_, rhoold, rhobar_, v_, hbar_, h_, rot) ==
    kernel1Out(rot.r, FMul(rot.c, alpha_), FMul(rot.s, alpha_),
               FDiv(FMul(FMul(sbar_, rot.r), rot.r), FMul(rhoold, rhobar_)),
               v_, hbar_, h_)

\* kernel1(alpha, beta, alphabar, sbar, rho, rhobar, v, hbar, h, damp):
\* the outputs (rh, alphaba, theta, hba, h1) as a record; the scalars are the
\* same for every element, the vectors are computed elementwise
kernel1(alpha_, beta_, alphabar_, sbar_, rho_, rhobar_, v_, hbar_, h_, damp_) ==
    kernel1Rot(alpha_, sbar_, rho_, rhobar_, v_, hbar_, h_,
               _symOrtho(_symOrtho1(alphabar_, damp_), beta_))

\* ------------------------------------------------------------------------
\* lsmr: the pieces of the function body
\* ------------------------------------------------------------------------
MinInt(a, b) == IF a < b THEN a ELSE b

\* maxiter is None: maxiter = minDim.  An argument is <<>> (None) or <<k>>.
ResolveMaxiter(maxiterArg, A_) ==
    IF maxiterArg = <<>> THEN MinInt(NRows(A_), NCols(A_)) ELSE maxiterArg[1]

\* ctol = 0; if conlim > 0: ctol = 1 / conlim
Ctol(conlim_) == IF FGt(conlim_, 0) THEN FDiv(Num(1), conlim_) ELSE 0

\* if alpha > 0: v /= alpha
NormalizeV(v_, alpha_) == IF FGt(alpha_, 0) THEN VDivScalar(v_, alpha_) ELSE v_

InitBidiagV(u1, beta0, v1) ==
    [u |-> u1, beta |-> beta0, v |-> NormalizeV(v1, nrm2(v1)), alpha |-> nrm2(v1)]

InitBidiagU(A_, u1, beta0) == InitBidiagV(u1, beta0, rmatvec(A_, u1))

InitBidiagBeta(A_, b_, beta0) ==
    IF FGt(beta0, 0) THEN InitBidiagU(A_, VDivScalar(b_, beta0), beta0)
    ELSE [u |-> b_, beta |-> beta0, v |-> Zeros(NCols(A_)), alpha |-> 0]

\* u = b; beta = nrm2(b); v = zeros(n); alpha = 0
\* if beta > 0: u /= beta (in place: u is b), v = A.rmatvec(u), alpha = nrm2(v)
\* if alpha > 0: v /= alpha
InitBidiag(A_, b_) == InitBidiagBeta(A_, b_, nrm2(b_))

\* (variant of LoopCond: the loop test off by one)
LoopCondLe(itn_, maxiter_) == itn_ <= maxiter_

\* while itn < maxiter
LoopCond(itn_, maxiter_) == itn_ < maxiter_

\* alpha = nrm2(v); if alpha > 0: v /= alpha
BidiagV(u2, beta1, v1) ==
    [u |-> u2, beta |-> beta1, v |-> NormalizeV(v1, nrm2(v1)), alpha |-> nrm2(v1)]

\* v = rmatvec(u) - beta * v
BidiagU(A_, u2, beta1, v_) ==
    BidiagV(u2, beta1, VSub(rmatvec(A_, u2), VScale(beta1, v_)))

\* v and alpha recomputed whether or not beta > 0
BidiagBetaAlways(A_, u1, beta1, v_, alpha_) ==
    IF FGt(beta1, 0) THEN BidiagU(A_, VDivScalar(u1, beta1), beta1, v_)
    ELSE BidiagU(A_, u1, beta1, v_)

\* if beta > 0: u /= beta; v = ...; alpha = ...; if alpha > 0: v /= alpha
BidiagBeta(A_, u1, beta1, v_, alpha_) ==
    IF FGt(beta1, 0) THEN BidiagU(A_, VDivScalar(u1, beta1), beta1, v_)
    ELSE [u |-> u1, beta |-> beta1, v |-> v_, alpha |-> alpha_]

\* beta = nrm2(u)
BidiagNorm(A_, u1, v_, alpha_) == BidiagBeta(A_, u1, nrm2(u1), v_, alpha_)

\* u = matvec(v) - alpha * u, and the rest of the bidiagonalization step
BidiagStep(A_, u_, v_, alpha_) ==
    BidiagNorm(A_, VSub(matvec(A_, v_), VScale(alpha_, u_)), v_, alpha_)

\* test3 = 1 / condA
CondTest(maxr, minr, cond) ==
    [maxrbar |-> maxr, minrbar |-> minr, condA |-> cond, test3 |-> FDiv(Num(1), cond)]

\* condA = max(maxrbar, rhotemp) / min(minrbar, rhotemp)
CondRatio(maxr, minr, rhotemp_) ==
    CondTest(maxr, minr, FDiv(PyMax(maxr, rhotemp_), PyMin(minr, rhotemp_)))

\* maxrbar = max(maxrbar, rhobarold); if itn > 1: minrbar = min(minrbar, rhobarold)
CondUpdate(itn_, maxrbar_, minrbar_, rhobarold_, rhotemp_) ==
    CondRatio(PyMax(maxrbar_, rhobarold_),
              IF itn_ > 1 THEN PyMin(minrbar_, rhobarold_) ELSE minrbar_,
              rhotemp_)

\* (variant of StopEval: an if / elif chain, the first satisfied test wins)
StopEvalFirstWins(itn_, maxiter_, test3_, ctol_, istop_) ==
    IF itn_ >= maxiter_ THEN 7
    ELSE IF FLe(FAdd(Num(1), test3_), Num(1)) THEN 6
    ELSE IF FLe(test3_, ctol_) THEN 3
    ELSE istop_

\* if itn >= maxiter: istop = 7
\* if 1 + test3 <= 1: istop = 6
\* if test3 <= ctol: istop = 3
StopEval(itn_, maxiter_, test3_, ctol_, istop_) ==
    LET i7 == IF itn_ >= maxiter_ THEN 7 ELSE istop_
        i6 == IF FLe(FAdd(Num(1), test3_), Num(1)) THEN 6 ELSE i7
    IN  IF FLe(test3_, ctol_) THEN 3 ELSE i6

\* returned values: a bare array, or a tuple of items
None == [t |-> "None"]
NdArray(x_) == [t |-> "ndarray", v |-> x_]
IntObj(k) == [t |-> "int", v |-> k]

\* "return x" (normar == 0)
ReturnDegenerate(x_, istop_, itn_) == [tuple |-> FALSE, items |-> <<NdArray(x_)>>]

\* "return (x, None)"
ReturnFinal(x_, istop_, itn_) == [tuple |-> TRUE, items |-> <<NdArray(x_), None>>]

\* ------------------------------------------------------------------------
\* lsmr: state
\* ------------------------------------------------------------------------
VARIABLES
    pc,         \* "idle", "loop" (at the while test), "after" (past the loop), "done"
    A,          \* the operator's matrix
    b,          \* the caller's right-hand side array
    bArg,       \* the values b held when lsmr was called
    damp, conlim, maxiter,
    u, v, h, hbar, x,
    alpha, beta, alphabar, zetabar, zeta, rho, rhobar, cbar, sbar, theta,
    rhobarold, rhotemp, maxrbar, minrbar, condA, test3,
    normr, normar, ctol, istop, itn,
    result      \* the returned object

lsmrArgs == <<A, damp, conlim, maxiter, bArg>>
lsmrVecs == <<b, u, v, h, hbar, x>>
lsmrScalars == <<alpha, beta, alphabar, zetabar, zeta, rho, rhobar, cbar, sbar,
                 theta, rhobarold, rhotemp, maxrbar, minrbar, condA, test3,
                 normr, normar, ctol>>
lsmrVars == <<pc, lsmrArgs, lsmrVecs, lsmrScalars, istop, itn, result>>

\* the state of the direct solves, which lsmr does not touch
VARIABLES
    handle,     \* the SuperLU / CusparseLU object
    calls,      \* the SuperLU.solve calls in progress, by caller
    tri         \* the spsolve_triangular call in progress

luVars == <<handle, calls, tri>>

\* the state of a caller of the rotation routines alone
VARIABLES
    rotCall       \* the arguments of the last call and what it returned

rotVars == <<rotCall>>

\* bounds of the inputs
MaxB == 2
MaxIterArg == 3

\* the value the literal 1e+100 has in the number format: the largest finite one
MinrbarInit == SgnInt(Huge) * TruncTo(Huge - 1, 1)

MatrixSet ==
    { <<<<Num(1)>>>>,
      <<<<Num(2), 0>>, <<0, Num(4)>>>>,
      <<<<Num(1), 0>>, <<0, Num(32)>>>>,
      <<<<Num(1), Num(1)>>, <<0, Num(1)>>>>,
      <<<<Num(1)>>, <<Num(1)>>>>,
      <<<<Num(1), Num(2)>>>>,
      <<<<0, 0>>, <<0, Num(1)>>>> }

BSet(m) == [1..m -> {Num(r) : r \in 0..MaxB}]
DampSet == {0, Num(1)}
ConlimSet == {0, Num(1), Num(4), Num(64)}
MaxiterSet == {<<>>} \cup {<<k>> : k \in 0..MaxIterArg}

NoResult == [tuple |-> FALSE, items |-> <<>>]

lsmrInit ==
    /\ pc = "idle"
    /\ A = <<<<0>>>> /\ b = <<0>> /\ bArg = <<0>>
    /\ damp = 0 /\ conlim = 0 /\ maxiter = 0
    /\ u = <<>> /\ v = <<>> /\ h = <<>> /\ hbar = <<>> /\ x = <<>>
    /\ alpha = 0 /\ beta = 0 /\ alphabar = 0 /\ zetabar = 0 /\ zeta = 0
    /\ rho = 0 /\ rhobar = 0 /\ cbar = 0 /\ sbar = 0 /\ theta = 0
    /\ rhobarold = 0 /\ rhotemp = 0 /\ maxrbar = 0 /\ minrbar = 0
    /\ condA = 0 /\ test3 = 0 /\ normr = 0 /\ normar = 0 /\ ctol = 0
    /\ istop = 0 /\ itn = 0
    /\ result = NoResult

\* lsmr(A, b, damp, conlim, maxiter): from the entry to the main loop, or to
\* the return of the case normar == 0
lsmr_enter(A_, b_, damp_, conlim_, maxiterArg) ==
    /\ pc = "idle"
    /\ \E bd \in {InitBidiag(A_, b_)} :
       \E nar \in {FMul(bd.alpha, bd.beta)} :
           /\ A' = A_ /\ damp' = damp_ /\ conlim' = conlim_
           /\ maxiter' = ResolveMaxiter(maxiterArg, A_)
           /\ bArg' = b_
           /\ b' = bd.u /\ u' = bd.u
           /\ beta' = bd.beta /\ v' = bd.v /\ alpha' = bd.alpha
           /\ itn' = 0
           /\ zetabar' = FMul(bd.alpha, bd.beta)
           /\ alphabar' = bd.alpha
           /\ rho' = Num(1) /\ rhobar' = Num(1) /\ cbar' = Num(1) /\ sbar' = 0
           /\ h' = bd.v /\ hbar' = Zeros(NCols(A_)) /\ x' = Zeros(NCols(A_))
           /\ maxrbar' = 0 /\ minrbar' = MinrbarInit /\ condA' = Num(1)
           /\ istop' = 0
           /\ ctol' = Ctol(conlim_)
           /\ normr' = bd.beta
           /\ normar' = nar
           /\ IF FEq(nar, 0)
              THEN /\ result' = ReturnDegenerate(Zeros(NCols(A_)), 0, 0)
                   /\ theta' = theta
                   /\ pc' = "done"
              ELSE /\ result' = result
                   /\ theta' = Num(1)
                   /\ pc' = "loop"
           /\ UNCHANGED <<zeta, rhobarold, rhotemp, test3, luVars, rotVars>>

\* one pass through the body of the main loop
lsmr_iterate ==
    /\ pc = "loop"
    /\ LoopCond(itn, maxiter)
    /\ \E bd \in {BidiagStep(A, u, v, alpha)} :
       \E k1 \in {kernel1(bd.alpha, bd.beta, alphabar, sbar, rho, rhobar,
                          bd.v, hbar, h, damp)} :
       \E rot \in {_symOrtho(FMul(cbar, k1.rho), k1.theta)} :
       \E zeta1 \in {FMul(rot.c, zetabar)} :
       \E cu \in {CondUpdate(itn + 1, maxrbar, minrbar, rhobar, FMul(cbar, k1.rho))} :
       \E istop1 \in {StopEval(itn + 1, maxiter, cu.test3, ctol, istop)} :
           /\ itn' = itn + 1
           /\ u' = bd.u /\ beta' = bd.beta /\ v' = bd.v /\ alpha' = bd.alpha
           /\ rhobarold' = rhobar
           /\ rho' = k1.rho /\ alphabar' = k1.alphabar /\ theta' = k1.theta
           /\ hbar' = k1.hbar /\ h' = k1.h
           /\ rhotemp' = FMul(cbar, k1.rho)
           /\ cbar' = rot.c /\ sbar' = rot.s /\ rhobar' = rot.r
           /\ zeta' = zeta1
           /\ zetabar' = FMul(zetabar, FNeg(rot.s))
           /\ x' = VAdd(x, VScale(FDiv(zeta1, FMul(k1.rho, rot.r)), k1.hbar))
           /\ maxrbar' = cu.maxrbar /\ minrbar' = cu.minrbar
           /\ condA' = cu.condA /\ test3' = cu.test3
           /\ istop' = istop1
           /\ pc' = IF istop1 > 0 THEN "after" ELSE "loop"
    /\ UNCHANGED <<lsmrArgs, b, normr, normar, ctol, result, luVars, rotVars>>

\* the while test fails: the loop is left
lsmr_exhaust ==
    /\ pc = "loop"
    /\ ~LoopCond(itn, maxiter)
    /\ pc' = "after"
    /\ UNCHANGED <<lsmrArgs, lsmrVecs, lsmrScalars, istop, itn, result, luVars, rotVars>>

\* x = x.astype(numpy.float64); return (x, None)
lsmr_return ==
    /\ pc = "after"
    /\ result' = ReturnFinal(x, istop, itn)
    /\ pc' = "done"
    /\ UNCHANGED <<lsmrArgs, lsmrVecs, lsmrScalars, istop, itn, luVars, rotVars>>

lsmrNext ==
    \/ \E A_ \in MatrixSet, damp_ \in DampSet, conlim_ \in ConlimSet,
          maxiterArg \in MaxiterSet :
          \E b_ \in BSet(NRows(A_)) : lsmr_enter(A_, b_, damp_, conlim_, maxiterArg)
    \/ lsmr_iterate
    \/ lsmr_exhaust
    \/ lsmr_return

\* ------------------------------------------------------------------------
\* Dense arrays and sparse matrices of the direct solves.  The values are
\* integers and the arithmetic is exact; the factors used have diagonal
\* entries 1 or -1, so that every division of a substitution is exact.
\* An array is [kind, ndim, dtype, data]: data is the sequence of its rows
\* along axis 0, a row being the sequence of the values it holds (one value
\* for a 1-d array).
\* ------------------------------------------------------------------------
NdArr(ndim_, dtype_, data_) ==
    [kind |-> "ndarray", ndim |-> ndim_, dtype |-> dtype_, data |-> data_]

\* a 1-d float64 array of the values of the sequence s
Vec1(s) == NdArr(1, "d", [i \in 1..Len(s) |-> <<s[i]>>])

Width(data_) == IF Len(data_) = 0 THEN 0 ELSE Len(data_[1])

RECURSIVE SumSeq(_)
SumSeq(s) == IF s = <<>> THEN 0 ELSE Head(s) + SumSeq(Tail(s))

Identity(n) == [i \in 1..n |-> [j \in 1..n |-> IF i = j THEN 1 ELSE 0]]
TransposeM(M) == [i \in 1..Len(M) |-> [j \in 1..Len(M) |-> M[j][i]]]
ReverseSeq(s) == [i \in 1..Len(s) |-> s[Len(s) + 1 - i]]
FlipM(M) == ReverseSeq([i \in 1..Len(M) |-> ReverseSeq(M[i])])

\* the product M X of a square matrix and an array's data
MatMul(M, X) ==
    [i \in 1..Len(M) |->
        [c \in 1..Width(X) |-> SumSeq([j \in 1..Len(M) |-> M[i][j] * X[j][c]])]]

\* x[perm]: fancy indexing along axis 0; the result is a new array
TakeRows(data_, perm) == Vec([i \in 1..Len(perm) |-> data_[perm[i]]])

\* a permutation taken for its own inverse
ArgsortAsIs(p) == p

\* cupy.argsort(p): the indices that sort p
Argsort(p) ==
    Vec([k \in 1..Len(p) |->
            CHOOSE i \in 1..Len(p) :
                Cardinality({j \in 1..Len(p) : p[j] < p[i]}) = k - 1])

\* forward substitution on one column: y[i] = (col[i] - sum_{j<i} M[i][j] y[j]) / M[i][i]
RECURSIVE FwdSub(_, _, _, _)
FwdSub(M, col, unit, y) ==
    IF Len(y) = Len(col) THEN y
    ELSE FwdSub(M, col, unit,
                Append(y, (col[Len(y) + 1]
                           - SumSeq([j \in 1..Len(y) |-> M[Len(y) + 1][j] * y[j]]))
                          \div (IF unit THEN 1 ELSE M[Len(y) + 1][Len(y) + 1])))

\* the solution of T y = col for a triangular matrix T
TriSolveCol(T, col, lower, unit) ==
    IF lower THEN FwdSub(T, col, unit, <<>>)
    ELSE ReverseSeq(FwdSub(FlipM(T), ReverseSeq(col), unit, <<>>))

ColumnOf(data_, c) == Vec([i \in 1..Len(data_) |-> data_[i][c]])

TriSolveCols(T, data_, lower, unit, cols) ==
    Vec([i \in 1..Len(data_) |-> Vec([c \in 1..Width(data_) |-> cols[c][i]])])

\* cusparse.csrsm2(a, b, lower, unit_diag, transa): b is overwritten by the
\* solution of op(a) y = b, column by column; op(a) is a, or its transpose
\* ('T', and 'H' for real values); lower says which triangle of a is stored
csrsm2(a, data_, lower, unit, transa) ==
    TriSolveCols(IF transa = "N" THEN a ELSE TransposeM(a), data_,
                 IF transa = "N" THEN lower ELSE ~lower, unit,
                 [c \in 1..Width(data_) |->
                     TriSolveCol(IF transa = "N" THEN a ELSE TransposeM(a),
                                 ColumnOf(data_, c),
                                 IF transa = "N" THEN lower ELSE ~lower, unit)])

\* ------------------------------------------------------------------------
\* spsolve_triangular.  A sparse matrix is [sparse, format, shape, dtype,
\* entries]: entries is the sequence of the stored <<row, column, value>>,
\* in which a position may occur more than once.
\* ------------------------------------------------------------------------
SpMatrix(format_, shape_, dtype_, entries_) ==
    [sparse |-> TRUE, format |-> format_, shape |-> shape_, dtype |-> dtype_,
     entries |-> entries_]

\* the checks without the one of A's dtype
SpTriValidateNoDtype(avail_, A_, b_) ==
    IF ~avail_ THEN "NotImplementedError"
    ELSE IF ~A_.sparse THEN "TypeError: A"
    ELSE IF b_.kind # "ndarray" THEN "TypeError: b"
    ELSE IF A_.shape[1] # A_.shape[2] THEN "ValueError: square"
    ELSE IF b_.ndim \notin {1, 2} THEN "ValueError: ndim"
    ELSE IF A_.shape[1] # Len(b_.data) THEN "ValueError: shape"
    ELSE "ok"

\* lines 291-309: the error raised, or "ok"
SpTriValidate(avail_, A_, b_) ==
    IF ~avail_ THEN "NotImplementedError"
    ELSE IF ~A_.sparse THEN "TypeError: A"
    ELSE IF b_.kind # "ndarray" THEN "TypeError: b"
    ELSE IF A_.shape[1] # A_.shape[2] THEN "ValueError: square"
    ELSE IF b_.ndim \notin {1, 2} THEN "ValueError: ndim"
    ELSE IF A_.shape[1] # Len(b_.data) THEN "ValueError: shape"
    ELSE IF A_.dtype \notin {"f", "d", "F", "D"} THEN "TypeError: dtype"
    ELSE "ok"

EntriesAt(entries_, i, j) ==
    SelectSeq(entries_, LAMBDA e : e[1] = i /\ e[2] = j)
RECURSIVE SumValues(_)
SumValues(es) == IF es = <<>> THEN 0 ELSE Head(es)[3] + SumValues(Tail(es))

\* the matrix that the stored entries stand for
DenseOf(A_) ==
    Vec([i \in 1..A_.shape[1] |->
            Vec([j \in 1..A_.shape[2] |-> SumValues(EntriesAt(A_.entries, i, j))])])

\* the stored positions in row-major order, each once, with the summed value
RECURSIVE Canonical(_, _, _, _)
Canonical(A_, i, j, acc) ==
    IF i > A_.shape[1] THEN acc
    ELSE IF j > A_.shape[2] THEN Canonical(A_, i + 1, 1, acc)
    ELSE Canonical(A_, i, j + 1,
                   IF EntriesAt(A_.entries, i, j) = <<>> THEN acc
                   ELSE Append(acc, <<i, j, SumValues(EntriesAt(A_.entries, i, j))>>))

\* A.sum_duplicates(): in place
sum_duplicates(A_) == [A_ EXCEPT !.entries = Canonical(A_, 1, 1, <<>>)]

\* A.tocsr(): a new matrix in CSR format
tocsr(A_) == [sum_duplicates(A_) EXCEPT !.format = "csr"]

\* line 311
NeedsCsr(A_) == ~(A_.format = "csr" \/ A_.format = "csc")

\* lines 317-321: x is b itself, or a copy of b of A's dtype (the arrays of
\* the model are contiguous)
BindX(A_, b_, overwrite_b_) ==
    IF overwrite_b_ /\ A_.dtype = b_.dtype
    THEN [data |-> b_.data, dtype |-> b_.dtype, alias |-> TRUE]
    ELSE [data |-> b_.data, dtype |-> A_.dtype, alias |-> FALSE]

\* lines 325-328: single precision is promoted to double precision
Promote(dtype_) == IF dtype_ \in {"f", "F"} THEN "d" ELSE dtype_

\* ------------------------------------------------------------------------
\* SuperLU and CusparseLU: the factorization handle
\* ------------------------------------------------------------------------
\* perm_r = perm_c = None (CusparseLU)
NoPerm == <<>>

\* SuperLU.__init__(obj)
SuperLU_init(obj) ==
    [shape |-> obj.shape, nnz |-> obj.nnz,
     perm_r |-> obj.perm_r, perm_c |-> obj.perm_c,
     L |-> obj.L, U |-> obj.U, dtype |-> "d",
     perm_r_rev |-> Argsort(obj.perm_r),
     perm_c_rev |-> Argsort(obj.perm_c)]

\* tril(a) with setdiag(1.0), and triu(a)
Tril1(a) ==
    [i \in 1..Len(a) |->
        [j \in 1..Len(a) |-> IF i = j THEN 1 ELSE IF j < i THEN a[i][j] ELSE 0]]
Triu(a) == [i \in 1..Len(a) |-> [j \in 1..Len(a) |-> IF j >= i THEN a[i][j] ELSE 0]]

RECURSIVE CountNonzero(_)
CountNonzero(s) ==
    IF s = <<>> THEN 0 ELSE (IF Head(s) # 0 THEN 1 ELSE 0) + CountNonzero(Tail(s))
Nnz(a) == SumSeq([i \in 1..Len(a) |-> CountNonzero(a[i])])

\* CusparseLU.__init__(a): no permutations, and no cached inverses
CusparseLU_init(a) ==
    [shape |-> <<Len(a), Len(a)>>, nnz |-> Nnz(a),
     perm_r |-> NoPerm, perm_c |-> NoPerm,
     L |-> Tril1(a), U |-> Triu(a), dtype |-> "d",
     perm_r_rev |-> NoPerm, perm_c_rev |-> NoPerm]

\* SuperLU.solve, lines 409-418: the error raised, or "ok"
SolveValidate(h_, rhs_, trans_) ==
    IF rhs_.kind # "ndarray" THEN "TypeError"
    ELSE IF rhs_.ndim \notin {1, 2} THEN "ValueError: ndim"
    ELSE IF Len(rhs_.data) # h_.shape[1] THEN "ValueError: shape"
    ELSE IF trans_ \notin {"N", "T", "H"} THEN "ValueError: trans"
    ELSE "ok"

\* rhs.astype(dtype, copy=False): the array itself when the dtype is the same
AstypeNoCopy(arr, dtype_) ==
    [arr |-> [arr EXCEPT !.dtype = dtype_], alias |-> arr.dtype = dtype_]

\* rhs.astype(dtype): a new array, never the array itself
Astype(arr, dtype_) == [arr |-> [arr EXCEPT !.dtype = dtype_], alias |-> FALSE]

Index(name) == [op |-> "index", by |-> name]
Csrsm2(name, lower_, transa_) ==
    [op |-> "csrsm2", a |-> name, lower |-> lower_, transa |-> transa_]

\* the transposed modes solving against L before U, as the forward mode does
SolvePlanSameOrder(trans_) ==
    IF trans_ = "N"
    THEN <<Index("_perm_r_rev"), Csrsm2("L", TRUE, trans_),
           Csrsm2("U", FALSE, trans_), Index("perm_c")>>
    ELSE <<Index("_perm_c_rev"), Csrsm2("L", TRUE, trans_),
           Csrsm2("U", FALSE, trans_), Index("perm_r")>>

\* SuperLU.solve, lines 421-434: the steps in their order
SolvePlan(trans_) ==
    IF trans_ = "N"
    THEN <<Index("_perm_r_rev"), Csrsm2("L", TRUE, trans_),
           Csrsm2("U", FALSE, trans_), Index("perm_c")>>
    ELSE <<Index("_perm_c_rev"), Csrsm2("U", FALSE, trans_),
           Csrsm2("L", TRUE, trans_), Index("perm_r")>>

\* "if self.perm_r is not None" and "if self.perm_c is not None"
Guarded(h_, st) ==
    IF st.op # "index" THEN TRUE
    ELSE IF st.by \in {"_perm_r_rev", "perm_r"} THEN h_.perm_r # NoPerm
    ELSE h_.perm_c # NoPerm

PermNamed(h_, name) ==
    IF name = "_perm_r_rev" THEN h_.perm_r_rev
    ELSE IF name = "_perm_c_rev" THEN h_.perm_c_rev
    ELSE IF name = "perm_r" THEN h_.perm_r
    ELSE h_.perm_c

\* one step of the plan applied to x's data
StepData(h_, st, data_) ==
    IF st.op = "index" THEN TakeRows(data_, PermNamed(h_, st.by))
    ELSE csrsm2(IF st.a = "L" THEN h_.L ELSE h_.U, data_, st.lower, FALSE, st.transa)

\* ------------------------------------------------------------------------
\* The direct solves: state
\* ------------------------------------------------------------------------
NCalls == 2
MaxVal == 1

Callers == 1..NCalls

Perms3 ==
    { <<1, 2, 3>>, <<1, 3, 2>>, <<2, 1, 3>>, <<2, 3, 1>>, <<3, 1, 2>>, <<3, 2, 1>> }

LSet == { Identity(3), <<<<1, 0, 0>>, <<2, 1, 0>>, <<0, 1, 1>>>> }
USet == { Identity(3), <<<<1, 1, 0>>, <<0, 0 - 1, 2>>, <<0, 0, 1>>>> }

\* the objects scipy.sparse.linalg.splu can hand to SuperLU.__init__
ObjSet ==
    { [shape |-> <<3, 3>>, nnz |-> Nnz(lo) + Nnz(up), perm_r |-> pr, perm_c |-> pc_,
       L |-> lo, U |-> up] : pr \in Perms3, pc_ \in Perms3, lo \in LSet, up \in USet }

\* the matrices cusparse.csrilu02 can hand to CusparseLU.__init__
ILUSet == { <<<<1, 1, 0>>, <<2, 0 - 1, 2>>, <<0, 1, 1>>>>, Identity(3) }

HandleSet ==
    {SuperLU_init(o) : o \in ObjSet} \cup {CusparseLU_init(a) : a \in ILUSet}

ConcPerms == { <<1, 2, 3>>, <<2, 3, 1>>, <<1, 3, 2>> }
ConcHandleSet ==
    {SuperLU_init(o) :
        o \in {ob \in ObjSet : /\ ob.L # Identity(3) /\ ob.U # Identity(3)
                                /\ ob.perm_r \in ConcPerms /\ ob.perm_c \in ConcPerms}}
    \cup {CusparseLU_init(a) : a \in ILUSet \ {Identity(3)}}

NoArray == [kind |-> "none", ndim |-> 0, dtype |-> "d", data |-> <<>>]

IdleCall ==
    [pc |-> "idle", rhs |-> NoArray, trans |-> "N", x |-> <<>>, alias |-> FALSE,
     k |-> 0, ops |-> <<>>, ret |-> <<>>, err |-> "", chain |-> <<>>]

NoMatrix == [sparse |-> FALSE, format |-> "none", shape |-> <<0, 0>>, dtype |-> "d",
             entries |-> <<>>]

IdleTri ==
    [pc |-> "idle", A |-> NoMatrix, b |-> NoArray, lower |-> TRUE,
     overwrite_b |-> FALSE, unit |-> FALSE, avail |-> TRUE,
     Aw |-> NoMatrix, x |-> <<>>, xdtype |-> "d", alias |-> FALSE,
     ops |-> <<>>, ret |-> NoArray, err |-> ""]

luIdle ==
    /\ handle = CusparseLU_init(Identity(3))
    /\ calls = [c \in Callers |-> IdleCall]
    /\ tri = IdleTri

luInit ==
    /\ handle \in HandleSet
    /\ calls = [c \in Callers |-> IdleCall]
    /\ tri = IdleTri

\* the handles that several callers share
luConcInit ==
    /\ handle \in ConcHandleSet
    /\ calls = [c \in Callers |-> IdleCall]
    /\ tri = IdleTri

\* the right-hand sides a caller passes
RhsVectors == {Vec1(<<a1, a2, a3>>) : a1 \in 0..MaxVal, a2 \in 0..MaxVal, a3 \in 0..MaxVal}
RhsOther ==
    { NdArr(2, "d", <<<<1, 0>>, <<2, 1>>, <<3, 0>>>>),
      NdArr(1, "f", <<<<1>>, <<2>>, <<3>>>>),
      NdArr(1, "d", <<<<1>>, <<2>>>>),
      NdArr(0, "d", <<>>),
      NdArr(3, "d", <<<<1>>, <<2>>, <<3>>>>),
      [kind |-> "list", ndim |-> 1, dtype |-> "d", data |-> <<<<1>>, <<2>>, <<3>>>>] }
TransSet == {"N", "T", "H", "X"}

\* the inputs a caller passes to spsolve_triangular
TriASet ==
    { SpMatrix("csr", <<2, 2>>, "d", <<<<1, 1, 1>>, <<2, 1, 2>>, <<2, 2, 1>>>>),
      SpMatrix("csr", <<2, 2>>, "f",
               <<<<1, 1, 1>>, <<2, 1, 1>>, <<2, 1, 1>>, <<2, 2, 0 - 1>>>>),
      SpMatrix("coo", <<2, 2>>, "d",
               <<<<2, 2, 1>>, <<1, 1, 0 - 1>>, <<2, 1, 3>>, <<2, 2, 0 - 2>>>>),
      SpMatrix("csc", <<2, 2>>, "d", <<<<1, 1, 1>>, <<1, 2, 3>>, <<2, 2, 1>>>>) }
TriABad ==
    { [SpMatrix("csr", <<2, 2>>, "d", <<<<1, 1, 1>>, <<2, 2, 1>>>>) EXCEPT !.sparse = FALSE],
      SpMatrix("csr", <<2, 3>>, "d", <<<<1, 1, 1>>, <<2, 2, 1>>, <<2, 3, 1>>>>),
      SpMatrix("coo", <<2, 2>>, "i", <<<<1, 1, 1>>, <<2, 1, 1>>, <<2, 1, 1>>, <<2, 2, 1>>>>) }
TriBSet ==
    { NdArr(1, "d", <<<<1>>, <<2>>>>),
      NdArr(1, "f", <<<<3>>, <<1>>>>),
      NdArr(2, "d", <<<<1, 0>>, <<2, 1>>>>) }
TriBBad ==
    { NdArr(1, "d", <<<<1>>, <<2>>, <<3>>>>),
      NdArr(0, "d", <<>>),
      NdArr(3, "d", <<<<1>>, <<2>>>>),
      [kind |-> "list", ndim |-> 1, dtype |-> "d", data |-> <<<<1>>, <<2>>>>] }

\* SuperLU.solve(rhs, trans) is entered; chain_ holds the earlier right-hand
\* side when rhs is the result of an earlier call
solve_call(c, rhs_, trans_, chain_) ==
    /\ calls[c].pc = "idle"
    /\ calls' = [calls EXCEPT ![c] =
           [IdleCall EXCEPT !.pc = "check", !.rhs = rhs_, !.trans = trans_,
                            !.chain = chain_]]
    /\ UNCHANGED <<handle, tri, lsmrVars, rotVars>>

\* lines 409-420: the checks, then x = rhs.astype(self.L.dtype)
solve_check(c) ==
    /\ calls[c].pc = "check"
    /\ \E e \in {SolveValidate(handle, calls[c].rhs, calls[c].trans)} :
          IF e # "ok"
          THEN calls' = [calls EXCEPT ![c].pc = "raised", ![c].err = e]
          ELSE \E cp \in {Astype(calls[c].rhs, handle.dtype)} :
               calls' = [calls EXCEPT ![c].pc = "run", ![c].x = cp.arr.data,
                                      ![c].alias = cp.alias, ![c].k = 1,
                                      ![c].ops = <<"astype">>]
    /\ UNCHANGED <<handle, tri, lsmrVars, rotVars>>

\* the next step of lines 421-434; a csrsm2 writes into x's buffer, which is
\* the caller's array when x is the caller's array; x[perm] is a new array
solve_step(c) ==
    /\ calls[c].pc = "run"
    /\ \E st \in {SolvePlan(calls[c].trans)[calls[c].k]} :
       \E last \in {calls[c].k = Len(SolvePlan(calls[c].trans))} :
          IF ~Guarded(handle, st)
          THEN calls' = [calls EXCEPT ![c].k = @ + 1,
                                      ![c].pc = IF last THEN "ret" ELSE "run"]
          ELSE \E d \in {StepData(handle, st, calls[c].x)} :
               calls' = [calls EXCEPT
                   ![c].x = d,
                   ![c].rhs = IF st.op = "csrsm2" /\ calls[c].alias
                              THEN [@ EXCEPT !.data = d] ELSE @,
                   ![c].alias = IF st.op = "index" THEN FALSE ELSE @,
                   ![c].ops = Append(@, st),
                   ![c].k = @ + 1,
                   ![c].pc = IF last THEN "ret" ELSE "run"]
    /\ UNCHANGED <<handle, tri, lsmrVars, rotVars>>

\* lines 436-439: x = x.copy(order='F') unless x is F-contiguous (the values
\* are kept); return x
solve_return(c) ==
    /\ calls[c].pc = "ret"
    /\ calls' = [calls EXCEPT ![c].pc = "done", ![c].ret = calls[c].x]
    /\ UNCHANGED <<handle, tri, lsmrVars, rotVars>>

\* the caller drops the result (or the exception) of a finished call
solve_forget(c) ==
    /\ calls[c].pc \in {"done", "raised"}
    /\ calls' = [calls EXCEPT ![c] = IdleCall]
    /\ UNCHANGED <<handle, tri, lsmrVars, rotVars>>

\* the caller passes the result x of solve(y, 'N') on as the right-hand side
\* of a second call, which remembers y
solve_chain(c, trans_) ==
    /\ calls[c].pc = "done" /\ calls[c].trans = "N" /\ calls[c].chain = <<>>
    /\ calls' = [calls EXCEPT ![c] =
           [IdleCall EXCEPT !.pc = "check", !.trans = trans_,
                            !.rhs = NdArr(calls[c].rhs.ndim, handle.dtype, calls[c].ret),
                            !.chain = <<calls[c].rhs.data>>]]
    /\ UNCHANGED <<handle, tri, lsmrVars, rotVars>>

\* spsolve_triangular(A, b, lower, overwrite_b, unit_diagonal) is entered
sptri_call(avail_, A_, b_, lower_, overwrite_b_, unit_) ==
    /\ tri.pc = "idle"
    /\ tri' = [IdleTri EXCEPT !.pc = "check", !.A = A_, !.b = b_, !.lower = lower_,
                              !.overwrite_b = overwrite_b_, !.unit = unit_,
                              !.avail = avail_]
    /\ UNCHANGED <<handle, calls, lsmrVars, rotVars>>

\* lines 291-309
sptri_check ==
    /\ tri.pc = "check"
    /\ \E e \in {SpTriValidate(tri.avail, tri.A, tri.b)} :
          tri' = IF e # "ok" THEN [tri EXCEPT !.pc = "raised", !.err = e]
                 ELSE [tri EXCEPT !.pc = "prep"]
    /\ UNCHANGED <<handle, calls, lsmrVars, rotVars>>

\* lines 311-321: A.sum_duplicates() acts on the caller's matrix unless A was
\* converted; x is bound to b or to a copy of b
sptri_prepare ==
    /\ tri.pc = "prep"
    /\ \E conv \in {NeedsCsr(tri.A)} :
       \E bx \in {BindX(tri.A, tri.b, tri.overwrite_b)} :
          tri' = [tri EXCEPT
              !.pc = "solve",
              !.Aw = sum_duplicates(IF conv THEN tocsr(tri.A) ELSE tri.A),
              !.A = IF conv THEN @ ELSE sum_duplicates(@),
              !.x = bx.data, !.xdtype = bx.dtype, !.alias = bx.alias,
              !.ops = (IF conv THEN <<"tocsr">> ELSE <<>>) \o <<"sum_duplicates">>
                      \o (IF bx.alias THEN <<>> ELSE <<"astype">>)]
    /\ UNCHANGED <<handle, calls, lsmrVars, rotVars>>

\* lines 323-329: the solve, in x's buffer; the promotion; return x
sptri_solve ==
    /\ tri.pc = "solve"
    /\ \E d \in {csrsm2(DenseOf(tri.Aw), tri.x, tri.lower, tri.unit, "N")} :
          tri' = [tri EXCEPT
              !.pc = "done",
              !.x = d,
              !.b = IF tri.alias THEN [@ EXCEPT !.data = d] ELSE @,
              !.ops = Append(@, "csrsm2"),
              !.ret = NdArr(tri.b.ndim, Promote(tri.xdtype), d)]
    /\ UNCHANGED <<handle, calls, lsmrVars, rotVars>>

\* the caller drops the result (or the exception)
sptri_forget ==
    /\ tri.pc \in {"done", "raised"}
    /\ tri' = IdleTri
    /\ UNCHANGED <<handle, calls, lsmrVars, rotVars>>

\* one caller, one call after the other
luNext ==
    \/ /\ tri.pc = "idle"
       /\ \E rhs_ \in RhsVectors \cup RhsOther, trans_ \in TransSet :
             solve_call(1, rhs_, trans_, <<>>)
    \/ solve_check(1)
    \/ solve_step(1)
    \/ solve_return(1)
    \/ solve_forget(1)
    \/ \E trans_ \in TransSet : solve_chain(1, trans_)
    \/ /\ calls[1].pc = "idle"
       /\ \/ \E A_ \in TriASet, b_ \in TriBSet, lower_ \in BOOLEAN,
                overwrite_b_ \in BOOLEAN, unit_ \in BOOLEAN :
                sptri_call(TRUE, A_, b_, lower_, overwrite_b_, unit_)
          \/ \E A_ \in TriASet \cup TriABad, b_ \in TriBSet \cup TriBBad,
                avail_ \in BOOLEAN :
                sptri_call(avail_, A_, b_, TRUE, TRUE, FALSE)
    \/ sptri_check
    \/ sptri_prepare
    \/ sptri_solve
    \/ sptri_forget

\* several callers share the handle, each with its own right-hand side
ConcRhs == {Vec1(<<1, 2, 3>>), Vec1(<<3, 0, 1>>)}
luConcNext ==
    \E c \in Callers :
        \/ \E rhs_ \in ConcRhs, trans_ \in {"N", "T"} : solve_call(c, rhs_, trans_, <<>>)
        \/ solve_check(c)
        \/ solve_step(c)
        \/ solve_return(c)

\* ------------------------------------------------------------------------
\* The rotation routines called on their own
\* ------------------------------------------------------------------------
RotIdle == [pc |-> "idle", a |-> 0, b |-> 0, out |-> [c |-> 0, s |-> 0, r |-> 0], r1 |-> 0]

\* the scalars: every finite value of the format, the infinities and NaN
RotArgs ==
    {Rnd(m * 2^e) : m \in (1 - 2^Prec)..(2^Prec - 1), e \in 0..(2 * FracBits)}
    \cup {NaN}

\* _symOrtho(a, b, c, s, r) and _symOrtho1(a, b) on the same arguments
symOrtho_call(a_, b_) ==
    /\ rotCall.pc = "idle"
    /\ rotCall' = [pc |-> "done", a |-> a_, b |-> b_,
                out |-> _symOrtho(a_, b_), r1 |-> _symOrtho1(a_, b_)]
    /\ UNCHANGED <<lsmrVars, luVars>>

rotNext ==
    /\ rotCall.pc = "idle"
    /\ \E a_ \in RotArgs, b_ \in RotArgs : symOrtho_call(a_, b_)

vars == <<lsmrVars, luVars, rotVars>>

Init == lsmrInit /\ luIdle /\ rotCall = RotIdle
Next == lsmrNext
Spec == Init /\ [][Next]_vars

InitLU == lsmrInit /\ luInit /\ rotCall = RotIdle
NextLU == luNext
SpecLU == InitLU /\ [][NextLU]_vars

NextLUConc == luConcNext
InitLUConc == lsmrInit /\ luConcInit /\ rotCall = RotIdle
SpecLUConc == InitLUConc /\ [][NextLUConc]_vars

NextRot == rotNext
SpecRot == Init /\ [][NextRot]_vars

\* ------------------------------------------------------------------------
\* lsmr: properties
\* ------------------------------------------------------------------------
\* what a returned object reports
ReportsX(res) == Len(res.items) >= 1 /\ res.items[1].t = "ndarray"
ReportedX(res) == res.items[1].v
ReportsIstop(res, k) == res.tuple /\ Len(res.items) >= 2 /\ res.items[2] = IntObj(k)
ReportsItn(res, k) == res.tuple /\ Len(res.items) >= 3 /\ res.items[3] = IntObj(k)

\* the tests of the stop evaluation, on the values of the last iteration
TestMaxiter == itn >= maxiter
TestPrecision == FLe(FAdd(Num(1), test3), Num(1))
TestCond == FLe(test3, ctol)

LoopLeft == pc \in {"after", "done"}

C3_Claim ==
    (pc = "done" /\ FEq(normar, 0)) =>
        /\ itn = 0
        /\ ReportsX(result) /\ ReportedX(result) = Zeros(NCols(A))
        /\ ReportsIstop(result, 0)

\* C4 as stated: on every return path the result reports x and the stop
\* reason, the reported stop reason being istop (and the reported iteration
\* count being itn).
C4_Claim ==
    pc = "done" =>
        /\ ReportsX(result) /\ ReportedX(result) = x
        /\ ReportsIstop(result, istop)
        /\ ReportsItn(result, itn)

\* C5 as stated: the solver terminates with one stop reason, and a solve
\* whose initialization yields alpha * beta # 0 terminates with a stop reason
\* different from 0, for every value of maxiter.
C5_Claim ==
    pc = "done" =>
        /\ istop \in 0..7
        /\ ~FEq(normar, 0) => istop # 0

IsPrefix(s, t) == Len(s) <= Len(t) /\ \A i \in 1..Len(s) : s[i] = t[i]

InversePerm(p) == [k \in 1..Len(p) |-> CHOOSE i \in 1..Len(p) : p[i] = k]

HasPerms(h_) == h_.perm_r # NoPerm /\ h_.perm_c # NoPerm

\* the order of the steps as the claim states it
C7_Order(trans_) ==
    IF trans_ = "N"
    THEN <<[op |-> "index", by |-> "_perm_r_rev"],
           [op |-> "csrsm2", a |-> "L", lower |-> TRUE, transa |-> "N"],
           [op |-> "csrsm2", a |-> "U", lower |-> FALSE, transa |-> "N"],
           [op |-> "index", by |-> "perm_c"]>>
    ELSE <<[op |-> "index", by |-> "_perm_c_rev"],
           [op |-> "csrsm2", a |-> "U", lower |-> FALSE, transa |-> trans_],
           [op |-> "csrsm2", a |-> "L", lower |-> TRUE, transa |-> trans_],
           [op |-> "index", by |-> "perm_r"]>>

\* the steps of the order that a handle performs: all of them, or the two
\* triangular solves when it has no permutations
C7_Steps(h_, trans_) ==
    SelectSeq(C7_Order(trans_), LAMBDA st : st.op = "csrsm2" \/ HasPerms(h_))

C7_Permuted(call) ==
    \A i \in 1..Len(call.ret) :
        call.ret[i] =
            IF call.trans = "N"
            THEN call.rhs.data[InversePerm(handle.perm_r)[handle.perm_c[i]]]
            ELSE call.rhs.data[InversePerm(handle.perm_c)[handle.perm_r[i]]]

\* C7: the steps a SuperLU.solve call has performed after its cast of rhs
\* are, at every moment, an initial part of the order of its mode ('N':
\* inverse row permutation, L lower, U upper, column permutation; 'T'/'H':
\* inverse column permutation, U transposed, L transposed, row permutation;
\* the permutations left out on a handle that has none), and all of it when
\* the call returns; on a handle with permutations and L = U = identity the
\* result is x[i] = rhs[perm_r_rev[perm_c[i]]] for 'N' and
\* x[i] = rhs[perm_c_rev[perm_r[i]]] for 'T' and 'H'.
C7_Claim ==
    \A c \in Callers :
        calls[c].pc \in {"run", "ret", "done"} =>
            /\ IsPrefix(calls[c].ops, <<"astype">> \o C7_Steps(handle, calls[c].trans))
            /\ calls[c].pc \in {"ret", "done"} =>
                  calls[c].ops = <<"astype">> \o C7_Steps(handle, calls[c].trans)
            /\ (/\ calls[c].pc = "done" /\ HasPerms(handle)
                /\ handle.L = Identity(3) /\ handle.U = Identity(3))
                  => C7_Permuted(calls[c])

C7_Witness ==
    /\ calls[1].pc = "done" /\ calls[1].trans = "T"
    /\ handle.L = Identity(3) /\ handle.U = Identity(3)
    /\ handle.perm_r = <<2, 3, 1>> /\ handle.perm_c = <<1, 3, 2>>
    /\ calls[1].rhs.data = <<<<1>>, <<2>>, <<3>>>>
    /\ calls[1].ret = <<<<3>>, <<2>>, <<1>>>>

\* the matrix that was factorized: A[i][j] = (L U)[perm_r[i]][perm_c[j]], and
\* A = L U for a handle without permutations
OriginalMatrix(h_) ==
    IF HasPerms(h_)
    THEN [i \in 1..3 |-> [j \in 1..3 |->
             MatMul(h_.L, h_.U)[h_.perm_r[i]][h_.perm_c[j]]]]
    ELSE MatMul(h_.L, h_.U)

RoundTripDone(call) ==
    call.pc = "done" /\ call.chain # <<>> /\ call.trans \in {"T", "H"}

\* C8 (as stated): z = solve(solve(y, 'N'), 'T') satisfies A z = y.
C8_Original ==
    \A c \in Callers :
        RoundTripDone(calls[c]) =>
            MatMul(OriginalMatrix(handle), calls[c].ret) = calls[c].chain[1]

\* C8 (amended): z = solve(solve(y, 'N'), 'T') satisfies A (A^T z) = y: with
\* x = solve(y, 'N'), A x = y and A^T z = x.
C8_Amended ==
    \A c \in Callers :
        RoundTripDone(calls[c]) =>
            /\ MatMul(TransposeM(OriginalMatrix(handle)), calls[c].ret) = calls[c].rhs.data
            /\ MatMul(OriginalMatrix(handle), calls[c].rhs.data) = calls[c].chain[1]
            /\ MatMul(OriginalMatrix(handle),
                      MatMul(TransposeM(OriginalMatrix(handle)), calls[c].ret))
                  = calls[c].chain[1]

C8_Witness ==
    /\ RoundTripDone(calls[1]) /\ calls[1].trans = "T"
    /\ handle.perm_r = <<2, 3, 1>> /\ handle.perm_c = <<1, 3, 2>>
    /\ handle.L # Identity(3) /\ handle.U # Identity(3)
    /\ calls[1].chain[1] = <<<<1>>, <<0>>, <<1>>>>
    /\ MatMul(OriginalMatrix(handle), calls[1].ret) # calls[1].chain[1]

\* the inputs the claim lists as rejected
C9_SolveInvalid(h_, rhs_, trans_) ==
    \/ rhs_.kind # "ndarray"
    \/ rhs_.ndim \notin {1, 2}
    \/ Len(rhs_.data) # h_.shape[1]
    \/ trans_ \notin {"N", "T", "H"}

C9_TriInvalid(avail_, A_, b_) ==
    \/ ~avail_
    \/ ~A_.sparse
    \/ b_.kind # "ndarray"
    \/ A_.shape[1] # A_.shape[2]
    \/ b_.ndim \notin {1, 2}
    \/ Len(b_.data) # A_.shape[1]
    \/ A_.dtype \notin {"f", "d", "F", "D"}

C9_SolveUntouched(c) ==
    /\ calls'[c].pc = "raised"
    /\ calls'[c].ops = <<>> /\ calls'[c].x = <<>>
    /\ calls'[c].rhs = calls[c].rhs
    /\ handle' = handle

C9_TriUntouched ==
    /\ tri'.pc = "raised"
    /\ tri'.ops = <<>> /\ tri'.x = <<>> /\ tri'.Aw = NoMatrix
    /\ tri'.A = tri.A /\ tri'.b = tri.b

\* C9: a call of SuperLU.solve or spsolve_triangular whose input is one the
\* claim lists is rejected by the step that checks it, with no conversion,
\* duplicate merge, copy, cast or csrsm2 done and with A, the handle and
\* b / rhs as they were passed; a rejection is raised by that step only, and
\* never once the call has touched anything.
C9_Claim ==
    [][ /\ \A c \in Callers :
             /\ (calls[c].pc = "check" /\ calls'[c] # calls[c]
                 /\ C9_SolveInvalid(handle, calls[c].rhs, calls[c].trans))
                   => C9_SolveUntouched(c)
             /\ (calls'[c].pc = "raised" /\ calls[c].pc # "raised")
                   => (calls[c].pc = "check" /\ C9_SolveUntouched(c))
        /\ (tri.pc = "check" /\ tri' # tri /\ C9_TriInvalid(tri.avail, tri.A, tri.b))
              => C9_TriUntouched
        /\ (tri'.pc = "raised" /\ tri.pc # "raised")
              => (tri.pc = "check" /\ C9_TriUntouched) ]_vars

C9_Witness ==
    /\ tri.pc = "raised" /\ tri.err = "TypeError: dtype"
    /\ tri.A.format = "coo" /\ tri.A # sum_duplicates(tri.A)
    /\ tri.b.kind = "ndarray" /\ tri.ops = <<>>

RECURSIVE RunPlan(_, _, _, _)
RunPlan(h_, plan, k_, data_) ==
    IF k_ > Len(plan) THEN data_
    ELSE RunPlan(h_, plan, k_ + 1,
                 IF Guarded(h_, plan[k_]) THEN StepData(h_, plan[k_], data_) ELSE data_)

\* the result of a call that runs alone
C10_Alone(h_, rhs_, trans_) == RunPlan(h_, SolvePlan(trans_), 1, rhs_.data)

\* C10: no step of a SuperLU.solve call changes the handle (L, U, perm_r,
\* perm_c, the cached inverse permutations, shape) or the caller's rhs, and
\* a call that returns, whatever the other callers did meanwhile, returns
\* the result of running alone on its rhs.
C10_Claim ==
    [][ /\ handle' = handle
        /\ \A c \in Callers :
             /\ (calls[c].pc # "idle" /\ calls'[c].pc # "idle")
                   => calls'[c].rhs = calls[c].rhs
             /\ calls'[c].pc = "done"
                   => calls'[c].ret = C10_Alone(handle, calls'[c].rhs, calls'[c].trans) ]_vars

C10_Witness ==
    /\ calls[1].pc = "done" /\ calls[2].pc = "run" /\ calls[2].k = 3
    /\ calls[1].trans = "N" /\ calls[2].trans = "T"
    /\ calls[1].rhs # calls[2].rhs
    /\ calls[1].ret # calls[1].rhs.data
    /\ handle.perm_r = NoPerm

\* ------------------------------------------------------------------------
\* The rotation routines: properties
\* ------------------------------------------------------------------------
RotDone == rotCall.pc = "done" /\ IsFin(rotCall.a) /\ IsFin(rotCall.b)

\* sign and absolute value of a finite scalar, as the claim uses them
C11_Sign(x_) == IF x_ > 0 THEN Scale ELSE IF x_ < 0 THEN 0 - Scale ELSE 0
C11_Abs(x_) == IF x_ < 0 THEN 0 - x_ ELSE x_

\* c*c + s*s - 1 and c*a + s*b - r, exactly, in units of 2^-(2 FracBits)
C11_NormErr ==
    AbsInt(rotCall.out.c * rotCall.out.c + rotCall.out.s * rotCall.out.s - Scale * Scale)
C11_ProjErr ==
    AbsInt(rotCall.out.c * rotCall.a + rotCall.out.s * rotCall.b - rotCall.out.r * Scale)

C11_Degenerate ==
    /\ rotCall.b = 0 =>
          rotCall.out = [c |-> C11_Sign(rotCall.a), s |-> 0, r |-> C11_Abs(rotCall.a)]
    /\ rotCall.a = 0 =>
          rotCall.out = [c |-> 0, s |-> C11_Sign(rotCall.b), r |-> C11_Abs(rotCall.b)]

C12_Claim == pc \in {"loop", "after", "done"} => b = bArg

\* thetabar * rho_new / (rho_old * rhobar_old), with thetabar = sbar * rho_new
C13_Coef == FDiv(FMul(FMul(sbar, rho'), rho'), FMul(rho, rhobar))

C13_Hbar == hbar' = Vec([i \in 1..Len(h) |-> FSub(h[i], FMul(C13_Coef, hbar[i]))])

C13_H == h' = Vec([i \in 1..Len(h) |-> FSub(v'[i], FMul(FDiv(theta', rho'), h[i]))])

\* C13: every iteration sets hbar to h_old - (thetabar*rho_new/(rho_old*
\* rhobar_old)) * hbar_old and h to v - (theta/rho_new) * h_old, elementwise.
C13_Claim == [][itn' = itn + 1 => (C13_Hbar /\ C13_H)]_vars

\* u = matvec(v) - alpha * u, before its normalization
C14_U == VSub(matvec(A, v), VScale(alpha, u))

\* v = rmatvec(u) - beta * v from the new u and beta, before its normalization
C14_V == VSub(rmatvec(A, u'), VScale(beta', v))

C14_Recomputed ==
    /\ alpha' = nrm2(C14_V)
    /\ v' = IF FGt(nrm2(C14_V), 0) THEN VDivScalar(C14_V, nrm2(C14_V)) ELSE C14_V

\* C14 (as stated): every iteration recomputes v = rmatvec(u) - beta*v and
\* alpha = norm(v) after computing beta, whether or not beta > 0.
C14_Original == [][itn' = itn + 1 => C14_Recomputed]_vars

\* C14 (amended): every iteration computes u = matvec(v) - alpha*u and
\* beta = norm(u); when beta > 0 it normalizes u and recomputes
\* v = rmatvec(u) - beta*v and alpha = norm(v), normalizing v when alpha > 0;
\* when beta > 0 does not hold, u is left as computed and v and alpha keep
\* the values of the previous iteration, which the rotations then use.
C14_Amended ==
    [][itn' = itn + 1 =>
          /\ beta' = nrm2(C14_U)
          /\ IF FGt(beta', 0)
             THEN u' = VDivScalar(C14_U, beta') /\ C14_Recomputed
             ELSE u' = C14_U /\ v' = v /\ alpha' = alpha
          /\ theta' = FMul(_symOrtho(_symOrtho1(alphabar, damp), beta').s, alpha')
          /\ alphabar' = FMul(_symOrtho(_symOrtho1(alphabar, damp), beta').c, alpha')]_vars

C14_Witness ==
    /\ itn = 1 /\ beta = 0 /\ u = <<0>>
    /\ alpha = Num(1) /\ v = <<Num(1)>> /\ alphabar = Num(1)
    /\ A = <<<<Num(1)>>>> /\ bArg = <<Num(1)>>

====
